---- MODULE Spec2Model ----
(***************************************************************************)
(* Model of dictdiffer's extraction layer (src/dictdiffer/extractors.py):  *)
(* the Extractor registry, the Dict/List/Set/Sequence extractors and the   *)
(* canonical projection used by SequenceExtractor.                         *)
(*                                                                         *)
(* Python values are encoded as follows.  Numbers are integers >= 0.       *)
(* None is the integer -1: it lies outside every value domain and below    *)
(* every number, which is where CPython 2 orders None.  A list or a tuple  *)
(* is a sequence (Python index p is TLA+ index p+1), a set is a set, a     *)
(* dict is a function on its key set.  A meta patch is the 5-tuple         *)
(* <<action, old_position, new_position, old_value, new_value>>.           *)
(***************************************************************************)
EXTENDS Integers, Sequences, FiniteSets, TLC

VARIABLES
    extractor,          \* class whose extract() is running, or "none"
    pc,                 \* position of the running call
    first, second,      \* the two arguments of extract()
    node, dotted_node,  \* path arguments of extract()
    ignore,             \* ignore argument of extract()
    patches,            \* meta patches yielded and not yet applied, in emission order
    opcode,             \* SequenceExtractor.extract local _tuple: the opcode in hand
    latest_insertions,  \* SequenceExtractor.extract local
    latest_deletions,   \* SequenceExtractor.extract local
    cur,                \* consumer's mutable copy of first
    applied,            \* number of patches the consumer has applied
    instances,          \* the Extractor objects constructed so far
    last_call,          \* the last Extractor.extract call: instance and its state before
    set_s, set_t,       \* two sets handed to _make_hashable
    canon               \* their projections and comparison results

callVars   == <<extractor, pc, first, second, node, dotted_node, ignore>>
seqVars    == <<opcode, latest_insertions, latest_deletions>>
replayVars == <<cur, applied>>
canonVars  == <<set_s, set_t, canon>>
regVars    == <<instances, last_call>>
vars == <<extractor, pc, first, second, node, dotted_node, ignore, patches,
          opcode, latest_insertions, latest_deletions,
          cur, applied, instances, last_call, set_s, set_t, canon>>

-----------------------------------------------------------------------------
(* Bounds and value domains *)

MaxLen == 3

None == -1

Values == {1, 2}

RECURSIVE ListsUpTo(_)
ListsUpTo(n) ==
    IF n = 0 THEN { <<>> }
    ELSE ListsUpTo(n - 1) \cup [1..n -> Values]

Lists == ListsUpTo(MaxLen)

Min(a, b) == IF a < b THEN a ELSE b
Max(a, b) == IF a < b THEN b ELSE a

-----------------------------------------------------------------------------
(* Meta patches *)

Action(p)      == p[1]
OldPosition(p) == p[2]
NewPosition(p) == p[3]
OldValue(p)    == p[4]
NewValue(p)    == p[5]

-----------------------------------------------------------------------------
(* ListExtractor.extract *)

\* mutant: range(lo, hi) without reversed()
ReversedRangeAscending(lo, hi) == [k \in 1..Max(hi - lo, 0) |-> lo + k - 1]
\* reversed(range(lo, hi)): hi-1, hi-2, ..., lo
ReversedRange(lo, hi) == [k \in 1..Max(hi - lo, 0) |-> hi - k]

\* mutant: the tail is deleted from index i upwards
ListDeleteRunAscending(f, i, max_length) ==
    [k \in 1..(max_length - i) |->
        <<"delete", i + k - 1, i + k - 1, f[i + k], None>>]
\* the inner loop over reversed(range(i, max_length))
ListDeleteRun(f, i, max_length) ==
    LET js == ReversedRange(i, max_length)
    IN  [k \in 1..Len(js) |-> <<"delete", js[k], js[k], f[js[k] + 1], None>>]

\* mutant: every insert is reported at position len_first
RECURSIVE ListLoopStaleInsert(_, _, _)
ListLoopStaleInsert(f, s, i) ==
    LET len_first  == Len(f)
        len_second == Len(s)
        max_length == Max(len_first, len_second)
    IN  IF i >= max_length THEN <<>>
        ELSE IF i < Min(len_first, len_second)
             THEN <<<<"change", i, i, f[i + 1], s[i + 1]>>>> \o ListLoopStaleInsert(f, s, i + 1)
        ELSE IF i >= len_first
             THEN <<<<"insert", len_first, len_first, None, s[i + 1]>>>>
                  \o ListLoopStaleInsert(f, s, i + 1)
        ELSE ListDeleteRun(f, i, max_length)
\* the loop "for i in range(max_length)" from index i on
RECURSIVE ListLoop(_, _, _)
ListLoop(f, s, i) ==
    LET len_first  == Len(f)
        len_second == Len(s)
        max_length == Max(len_first, len_second)
    IN  IF i >= max_length THEN <<>>
        ELSE IF i < Min(len_first, len_second)
             THEN <<<<"change", i, i, f[i + 1], s[i + 1]>>>> \o ListLoop(f, s, i + 1)
        ELSE IF i >= len_first
             THEN <<<<"insert", i, i, None, s[i + 1]>>>> \o ListLoop(f, s, i + 1)
        ELSE ListDeleteRun(f, i, max_length)

ListExtractorExtract(f, s) == ListLoop(f, s, 0)

-----------------------------------------------------------------------------
(* SequenceExtractor.extract: translation of one opcode                     *)
(* An opcode is <<tag, old_start, old_end, new_start, new_end>>.            *)

Tag(t)      == t[1]
OldStart(t) == t[2]
OldEnd(t)   == t[3]
NewStart(t) == t[4]
NewEnd(t)   == t[5]

\* the 'insert' branch
InsertPatches(s, t, li, ld) ==
    [k \in 1..(NewEnd(t) - NewStart(t)) |->
        <<"insert", OldStart(t) + (k - 1) + li - ld,
          NewStart(t) + (k - 1), None, s[NewStart(t) + (k - 1) + 1]>>]

\* mutant: a delete is reported at its index in first
DeletePatchesUnshifted(f, t, li, ld) ==
    LET idx == ReversedRange(OldStart(t), OldEnd(t))
    IN  [k \in 1..Len(idx) |-> <<"delete", idx[k], idx[k], f[idx[k] + 1], None>>]
\* the 'delete' branch
DeletePatches(f, t, li, ld) ==
    LET idx == ReversedRange(OldStart(t), OldEnd(t))
    IN  [k \in 1..Len(idx) |->
            <<"delete", idx[k] - ld + li, idx[k] - ld + li, f[idx[k] + 1], None>>]

\* the 'replace' branch
ReplacePatches(f, s, t, li, ld) ==
    LET len_old == OldEnd(t) - OldStart(t)
        len_new == NewEnd(t) - NewStart(t)
        changes_index == Min(len_old, len_new)
        changes ==
            [k \in 1..changes_index |->
                <<"change", OldStart(t) + (k - 1) + li - ld, NewStart(t) + (k - 1),
                  f[OldStart(t) + (k - 1) + 1], s[NewStart(t) + (k - 1) + 1]>>]
        last_old_path == OldStart(t) + (changes_index - 1) + li - ld
        tail_new == [k \in 1..(len_new - changes_index) |->
                        NewStart(t) + changes_index + (k - 1)]
        tail_old == ReversedRange(OldStart(t) + changes_index, OldEnd(t))
    IN  IF len_old < len_new
        THEN changes \o
             [k \in 1..Len(tail_new) |->
                <<"insert", last_old_path + k, tail_new[k], None, s[tail_new[k] + 1]>>]
        ELSE IF len_old > len_new
        THEN changes \o
             [k \in 1..Len(tail_old) |->
                <<"delete", tail_old[k] + li - ld, tail_old[k] + li - ld,
                  f[tail_old[k] + 1], None>>]
        ELSE changes

\* mutant: latest_insertions is never advanced
InsertionsAfterStale(t, li) == li
\* the counters after an opcode has been translated
InsertionsAfter(t, li) ==
    LET len_old == OldEnd(t) - OldStart(t)
        len_new == NewEnd(t) - NewStart(t)
    IN  IF Tag(t) = "insert" THEN li + len_new
        ELSE IF Tag(t) = "replace" /\ len_old < len_new THEN li + (len_new - len_old)
        ELSE li

DeletionsAfter(t, ld) ==
    LET len_old == OldEnd(t) - OldStart(t)
        len_new == NewEnd(t) - NewStart(t)
    IN  IF Tag(t) = "delete" THEN ld + len_old
        ELSE IF Tag(t) = "replace" /\ len_old > len_new
             THEN ld + (len_old - Min(len_old, len_new))
        ELSE ld

OpcodePatches(f, s, t, li, ld) ==
    IF Tag(t) = "insert" THEN InsertPatches(s, t, li, ld)
    ELSE IF Tag(t) = "delete" THEN DeletePatches(f, t, li, ld)
    ELSE IF Tag(t) = "replace" THEN ReplacePatches(f, s, t, li, ld)
    ELSE <<>>

-----------------------------------------------------------------------------
(* A consumer applying patches in emission order to a copy of first         *)

InsertAt(l, p, v) == SubSeq(l, 1, p) \o <<v>> \o SubSeq(l, p + 1, Len(l))
RemoveAt(l, p)    == SubSeq(l, 1, p) \o SubSeq(l, p + 2, Len(l))
SetAt(l, p, v)    == [l EXCEPT ![p + 1] = v]

PositionValid(l, p) ==
    IF Action(p) = "insert"
    THEN 0 <= OldPosition(p) /\ OldPosition(p) <= Len(l)
    ELSE /\ 0 <= OldPosition(p) /\ OldPosition(p) < Len(l)
         /\ l[OldPosition(p) + 1] = OldValue(p)

IndexValid(l, p) ==
    IF Action(p) = "insert"
    THEN 0 <= OldPosition(p) /\ OldPosition(p) <= Len(l)
    ELSE 0 <= OldPosition(p) /\ OldPosition(p) < Len(l)

\* list.insert appends when the position lies beyond the end; any other
\* position outside the list is an error, which leaves the list as it is
ApplyPatch(l, p) ==
    IF Action(p) = "insert" /\ OldPosition(p) > Len(l) THEN Append(l, NewValue(p))
    ELSE IF ~IndexValid(l, p) THEN l
    ELSE IF Action(p) = "insert" THEN InsertAt(l, OldPosition(p), NewValue(p))
    ELSE IF Action(p) = "delete" THEN RemoveAt(l, OldPosition(p))
    ELSE SetAt(l, OldPosition(p), NewValue(p))

-----------------------------------------------------------------------------
(* DictExtractor.extract                                                    *)
(* A key is a record tagged with its Python type t: an int key n or a str  *)
(* key s, so that str(key) is a real conversion.  dotted_node is tagged     *)
(* with its Python type, which check() inspects; a path is tagged the same  *)
(* way, so that a list path and a dotted-string path are never equal.       *)
(* ignore is a record: is_none, or the collection of ignored paths.         *)

KeyInt1 == [t |-> "int", n |-> 1, s |-> ""]
KeyStr1 == [t |-> "str", n |-> 0, s |-> "1"]
KeyStrA == [t |-> "str", n |-> 0, s |-> "a"]

Keys == {KeyInt1, KeyStr1}

\* str(key)
Str(key) == IF key.t = "str" THEN key.s ELSE ToString(key.n)

\* '.'.join(l) for a non-empty list l of strings
RECURSIVE Join(_)
Join(l) == IF Len(l) = 1 THEN l[1] ELSE l[1] \o "." \o Join(Tail(l))

ListPath(l) == [kind |-> "list", list |-> l, str |-> ""]
StrPath(str) == [kind |-> "str", list |-> <<>>, str |-> str]

IgnoreNone == [is_none |-> TRUE, paths |-> {}]
IgnorePaths(ps) == [is_none |-> FALSE, paths |-> ps]

\* the path check() looks up in ignore
KeyPath(n, dn, key) ==
    IF dn.kind = "list"
    THEN ListPath(dn.list \o <<key>>)
    ELSE StrPath(Join([i \in 1..Len(n) |-> Str(n[i])] \o <<Str(key)>>))

Check(n, dn, ign, key) ==
    ign.is_none \/ KeyPath(n, dn, key) \notin ign.paths

\* mutant: check() guards the first branch only
ClassifyUnchecked(f, s, n, dn, ign, k) ==
    IF k \in DOMAIN f /\ k \in DOMAIN s /\ Check(n, dn, ign, k)
    THEN <<<<"change", k, k, f[k], s[k]>>>>
    ELSE IF k \in DOMAIN f
    THEN <<<<"delete", k, k, f[k], None>>>>
    ELSE IF k \in DOMAIN s
    THEN <<<<"insert", k, k, None, s[k]>>>>
    ELSE <<>>
\* the patches the loop body yields for key k: none or one
Classify(f, s, n, dn, ign, k) ==
    IF k \in DOMAIN f /\ k \in DOMAIN s /\ Check(n, dn, ign, k)
    THEN <<<<"change", k, k, f[k], s[k]>>>>
    ELSE IF k \in DOMAIN f /\ Check(n, dn, ign, k)
    THEN <<<<"delete", k, k, f[k], None>>>>
    ELSE IF k \in DOMAIN s /\ Check(n, dn, ign, k)
    THEN <<<<"insert", k, k, None, s[k]>>>>
    ELSE <<>>

\* set(first.keys()+second.keys())
KeyUnion(f, s) == DOMAIN f \cup DOMAIN s

\* the orders in which a set may be iterated
Orders(S) ==
    {o \in [1..Cardinality(S) -> S] : \A i, j \in DOMAIN o : o[i] = o[j] => i = j}

RECURSIVE DictLoop(_, _, _, _, _, _)
DictLoop(f, s, n, dn, ign, order) ==
    IF order = <<>> THEN <<>>
    ELSE Classify(f, s, n, dn, ign, Head(order))
         \o DictLoop(f, s, n, dn, ign, Tail(order))

DictExtractorExtract(f, s, n, dn, ign, order) == DictLoop(f, s, n, dn, ign, order)

Dicts == UNION {[D -> Values] : D \in SUBSET Keys}

\* the node arguments the diff driver passes: the path so far, as a list in
\* both arguments or with dotted_node pre-joined into a dotted string
NodeLists == {<<>>, <<KeyStrA>>}
DottedOf(n) == IF n = <<>> THEN "" ELSE Join([i \in 1..Len(n) |-> Str(n[i])])
DottedNodes(n) == {ListPath(n), StrPath(DottedOf(n))}

IgnoredPaths ==
    {StrPath("1"), StrPath("a.1"), ListPath(<<KeyInt1>>), ListPath(<<KeyStrA, KeyStr1>>)}
Ignores == {IgnoreNone} \cup {IgnorePaths(ps) : ps \in SUBSET IgnoredPaths}

-----------------------------------------------------------------------------
(* SetExtractor.extract *)

SetElements == {1, 2, 3}
Sets == SUBSET SetElements

\* mutant: the delete is yielded before the insert
SetExtractorExtractDeleteFirst(f, s) ==
    LET addition == s \ f
        deletion == f \ s
    IN  (IF deletion # {} THEN <<<<"delete", None, None, deletion, None>>>> ELSE <<>>)
        \o (IF addition # {} THEN <<<<"insert", None, None, None, addition>>>> ELSE <<>>)
\* mutant: both patches are yielded even when empty
SetExtractorExtractAlways(f, s) ==
    <<<<"insert", None, None, None, s \ f>>, <<"delete", None, None, f \ s, None>>>>
SetExtractorExtract(f, s) ==
    LET addition == s \ f
        deletion == f \ s
    IN  (IF addition # {} THEN <<<<"insert", None, None, None, addition>>>> ELSE <<>>)
        \o (IF deletion # {} THEN <<<<"delete", None, None, deletion, None>>>> ELSE <<>>)

-----------------------------------------------------------------------------
(* One extract() call and its consumer *)

\* before the first iteration no opcode is in hand; both lists start at 0
NoOpcode == <<"none", 0, 0, 0, 0>>

NoInstances == <<>>
NoCall == [i |-> 0, before |-> <<>>]
IdleCanon == [state |-> "idle"]

InitCall(ex, firsts, seconds) ==
    /\ extractor = ex
    /\ pc = "call"
    /\ first \in firsts
    /\ second \in seconds
    /\ patches = <<>>
    /\ opcode = NoOpcode
    /\ latest_insertions = 0
    /\ latest_deletions = 0
    /\ applied = 0
    /\ instances = NoInstances
    /\ last_call = NoCall
    /\ set_s = {}
    /\ set_t = {}
    /\ canon = IdleCanon

InitDict ==
    /\ InitCall("Dict", Dicts, Dicts)
    /\ node \in NodeLists
    /\ dotted_node \in DottedNodes(node)
    /\ ignore \in Ignores
    /\ cur = <<>>

InitOther(ex, domain) ==
    /\ InitCall(ex, domain, domain)
    /\ node = <<>>
    /\ dotted_node = ListPath(<<>>)
    /\ ignore = IgnoreNone
    /\ cur = IF ex = "Set" THEN <<>> ELSE first

Init ==
    \/ InitDict
    \/ InitOther("List", Lists)
    \/ InitOther("Set", Sets)
    \/ InitOther("Sequence", Lists)

DictExtract ==
    /\ extractor = "Dict"
    /\ pc = "call"
    /\ \E order \in Orders(KeyUnion(first, second)) :
          patches' = DictExtractorExtract(first, second, node, dotted_node, ignore, order)
    /\ pc' = "done"
    /\ UNCHANGED <<extractor, first, second, node, dotted_node, ignore>>
    /\ UNCHANGED <<seqVars, replayVars, regVars, canonVars>>

ListExtract ==
    /\ extractor = "List"
    /\ pc = "call"
    /\ patches' = ListExtractorExtract(first, second)
    /\ pc' = "done"
    /\ UNCHANGED <<extractor, first, second, node, dotted_node, ignore>>
    /\ UNCHANGED <<seqVars, replayVars, regVars, canonVars>>

SetExtract ==
    /\ extractor = "Set"
    /\ pc = "call"
    /\ patches' = SetExtractorExtract(first, second)
    /\ pc' = "done"
    /\ UNCHANGED <<extractor, first, second, node, dotted_node, ignore>>
    /\ UNCHANGED <<seqVars, replayVars, regVars, canonVars>>

\* where the opcodes consumed so far end in first and in second
CursorOld == OldEnd(opcode)
CursorNew == NewEnd(opcode)

\* the opcodes sequence.get_opcodes() may hold next: contiguous with the
\* previous one, inside both lists, and of a shape the tag allows
NextOpcodes(tag) ==
    {t \in {<<tag, CursorOld, CursorOld + a, CursorNew, CursorNew + b>> :
                a \in 0..(Len(first) - CursorOld), b \in 0..(Len(second) - CursorNew)} :
        LET len_old == OldEnd(t) - OldStart(t)
            len_new == NewEnd(t) - NewStart(t)
        IN  CASE tag = "equal"   -> /\ len_old = len_new
                                    /\ len_old >= 1
                                    /\ \A k \in 0..(len_old - 1) :
                                          first[OldStart(t) + k + 1] = second[NewStart(t) + k + 1]
              [] tag = "insert"  -> len_old = 0 /\ len_new >= 1
              [] tag = "delete"  -> len_old >= 1 /\ len_new = 0
              [] tag = "replace" -> len_old >= 1 /\ len_new >= 1}

SequenceBegin ==
    /\ extractor = "Sequence"
    /\ pc = "call"
    /\ pc' = "loop"
    /\ latest_insertions' = 0
    /\ latest_deletions' = 0
    /\ UNCHANGED <<extractor, first, second, node, dotted_node, ignore>>
    /\ UNCHANGED <<patches, opcode, replayVars, regVars, canonVars>>

\* the body of the loop over get_opcodes() for opcode t
Translate(t) ==
    /\ opcode' = t
    /\ patches' = OpcodePatches(first, second, t, latest_insertions, latest_deletions)
    /\ latest_insertions' = InsertionsAfter(t, latest_insertions)
    /\ latest_deletions' = DeletionsAfter(t, latest_deletions)
    /\ UNCHANGED <<callVars, replayVars, regVars, canonVars>>

\* the generator is resumed only when its consumer has applied every patch
\* yielded so far
Resumable == extractor = "Sequence" /\ pc = "loop" /\ patches = <<>>

\* one iteration of the loop, by the tag of the opcode
SequenceEqual ==
    /\ Resumable
    /\ \E t \in NextOpcodes("equal") : Translate(t)

SequenceInsert ==
    /\ Resumable
    /\ \E t \in NextOpcodes("insert") : Translate(t)

SequenceDelete ==
    /\ Resumable
    /\ \E t \in NextOpcodes("delete") : Translate(t)

SequenceReplace ==
    /\ Resumable
    /\ \E t \in NextOpcodes("replace") : Translate(t)

SequenceEnd ==
    /\ Resumable
    /\ CursorOld = Len(first)
    /\ CursorNew = Len(second)
    /\ pc' = "done"
    /\ UNCHANGED <<extractor, first, second, node, dotted_node, ignore>>
    /\ UNCHANGED <<patches, seqVars, replayVars, regVars, canonVars>>

\* the consumer applies the next yielded patch to its copy of first
Apply ==
    /\ extractor \in {"List", "Sequence"}
    /\ pc \in {"loop", "done"}
    /\ patches # <<>>
    /\ cur' = ApplyPatch(cur, Head(patches))
    /\ patches' = Tail(patches)
    /\ applied' = applied + 1
    /\ UNCHANGED <<callVars, seqVars, regVars, canonVars>>

Next ==
    \/ DictExtract
    \/ ListExtract
    \/ SetExtract
    \/ SequenceBegin
    \/ SequenceEqual
    \/ SequenceInsert
    \/ SequenceDelete
    \/ SequenceReplace
    \/ SequenceEnd
    \/ Apply

Spec == Init /\ [][Next]_vars

-----------------------------------------------------------------------------
(* Properties of SequenceExtractor.extract *)

Replaying == extractor = "Sequence" /\ pc \in {"loop", "done"}

\* C1: replaying the patches of SequenceExtractor.extract, in emission order,
\* on a copy of first yields exactly second, for every valid opcode script.
C1_ReplayYieldsSecond ==
    (extractor = "Sequence" /\ pc = "done" /\ patches = <<>>) => cur = second

\* an insert and a delete came first, then a replace of a longer old run by a
\* shorter new run, and everything has been replayed
C1_Witness ==
    /\ extractor = "Sequence" /\ pc = "done" /\ patches = <<>>
    /\ Tag(opcode) = "replace"
    /\ OldEnd(opcode) - OldStart(opcode) > NewEnd(opcode) - NewStart(opcode)
    /\ latest_insertions >= 1
    /\ latest_deletions > (OldEnd(opcode) - OldStart(opcode)) - (NewEnd(opcode) - NewStart(opcode))
    /\ applied >= 4
    /\ first # second
    /\ cur = second

\* C2: each patch of SequenceExtractor.extract is valid against the list as it
\* stands when the patch is applied (a delete or change addresses an existing
\* element that holds the patch's old_value, an insert a position up to the
\* length), and the deletes of one run have strictly descending positions.
C2_PositionsValid ==
    (Replaying /\ patches # <<>>) =>
        /\ PositionValid(cur, Head(patches))
        /\ \A k \in 1..(Len(patches) - 1) :
              (Action(patches[k]) = "delete" /\ Action(patches[k + 1]) = "delete")
                  => OldPosition(patches[k + 1]) < OldPosition(patches[k])

\* a run of two deletes is about to be applied after an earlier insertion
C2_Witness ==
    /\ Replaying
    /\ Len(patches) >= 2
    /\ Action(patches[1]) = "delete" /\ Action(patches[2]) = "delete"
    /\ latest_insertions >= 1
    /\ applied >= 1
    /\ OldPosition(patches[1]) < Len(cur)

\* C9: at the start of every opcode latest_insertions - latest_deletions is
\* new_start - old_start, after the last opcode it is len(second) - len(first);
\* insert and change patches have old_position = new_position, and a delete
\* patch has a position >= its opcode's new_start.
C9_CounterInvariant ==
    Replaying =>
        /\ latest_insertions - latest_deletions = CursorNew - CursorOld
        /\ pc = "done" =>
              latest_insertions - latest_deletions = Len(second) - Len(first)
        /\ \A k \in 1..Len(patches) :
              /\ Action(patches[k]) \in {"insert", "change"}
                    => OldPosition(patches[k]) = NewPosition(patches[k])
              /\ Action(patches[k]) = "delete"
                    => OldPosition(patches[k]) >= NewStart(opcode)

\* an insert opcode is translated while both counters are already non-zero
C9_Witness ==
    /\ Replaying
    /\ Tag(opcode) = "insert"
    /\ patches # <<>>
    /\ latest_deletions >= 1
    /\ latest_insertions > NewEnd(opcode) - NewStart(opcode)
    /\ OldStart(opcode) # NewStart(opcode)

-----------------------------------------------------------------------------
(* Properties of ListExtractor.extract *)

ListDone == extractor = "List" /\ pc = "done"

\* C5: ListExtractor.extract yields max(len(first), len(second)) patches: a
\* change at each common position, ascending, then either an insert at each
\* further position of second, ascending, or a delete at each further
\* position of first, from max_length-1 downwards.
C5_ListShape ==
    (ListDone /\ applied = 0) =>
        LET lo == Min(Len(first), Len(second))
            hi == Max(Len(first), Len(second))
        IN  /\ Len(patches) = hi
            /\ \A i \in 0..(lo - 1) :
                  patches[i + 1] = <<"change", i, i, first[i + 1], second[i + 1]>>
            /\ Len(second) > Len(first) =>
                  \A i \in lo..(hi - 1) :
                      patches[i + 1] = <<"insert", i, i, None, second[i + 1]>>
            /\ Len(first) > Len(second) =>
                  \A k \in 1..(hi - lo) :
                      patches[lo + k] = <<"delete", hi - k, hi - k, first[hi - k + 1], None>>
            /\ \A i, j \in 1..Len(patches) :
                  (i < j /\ Action(patches[j]) = "change") => Action(patches[i]) = "change"
            /\ ~ \E i, j \in 1..Len(patches) :
                  Action(patches[i]) = "insert" /\ Action(patches[j]) = "delete"

\* a change followed by two deletes
C5_Witness ==
    /\ ListDone /\ applied = 0
    /\ Len(patches) = 3
    /\ Action(patches[1]) = "change"
    /\ Action(patches[2]) = "delete" /\ OldPosition(patches[2]) = 2
    /\ Action(patches[3]) = "delete" /\ OldPosition(patches[3]) = 1

\* C10: replaying the patches of ListExtractor.extract in emission order never
\* uses an out-of-range position (a delete or change addresses an existing
\* element, an insert the current length) and ends with second.
C10_ListReplay ==
    ListDone =>
        /\ patches # <<>> =>
              IF Action(Head(patches)) = "insert"
              THEN OldPosition(Head(patches)) = Len(cur)
              ELSE 0 <= OldPosition(Head(patches)) /\ OldPosition(Head(patches)) < Len(cur)
        /\ patches = <<>> => cur = second

\* a change and two deletes have been replayed
C10_Witness ==
    /\ ListDone /\ patches = <<>>
    /\ applied = 3
    /\ Len(first) = 3 /\ Len(second) = 1
    /\ first[1] # second[1]
    /\ cur = second

-----------------------------------------------------------------------------
(* Properties of SetExtractor.extract *)

\* C6: SetExtractor.extract yields at most two patches, without positions: an
\* insert of second - first exactly when that is non-empty, before a delete of
\* first - second exactly when that is non-empty; none iff first = second.
C6_SetPatches ==
    (extractor = "Set" /\ pc = "done") =>
        LET inserts == {k \in 1..Len(patches) : Action(patches[k]) = "insert"}
            deletes == {k \in 1..Len(patches) : Action(patches[k]) = "delete"}
        IN  /\ Len(patches) <= 2
            /\ inserts \cup deletes = 1..Len(patches)
            /\ \A k \in 1..Len(patches) :
                  OldPosition(patches[k]) = None /\ NewPosition(patches[k]) = None
            /\ Cardinality(inserts) = (IF second \ first # {} THEN 1 ELSE 0)
            /\ Cardinality(deletes) = (IF first \ second # {} THEN 1 ELSE 0)
            /\ \A k \in inserts :
                  NewValue(patches[k]) = second \ first /\ OldValue(patches[k]) = None
            /\ \A k \in deletes :
                  OldValue(patches[k]) = first \ second /\ NewValue(patches[k]) = None
            /\ \A i \in inserts, d \in deletes : i < d
            /\ (patches = <<>>) <=> (first = second)

\* both an insert and a delete are yielded
C6_Witness ==
    /\ extractor = "Set" /\ pc = "done"
    /\ Len(patches) = 2
    /\ first \cap second # {}

-----------------------------------------------------------------------------
(* Properties of DictExtractor.extract *)

Ignored(k) == ~ignore.is_none /\ KeyPath(node, dotted_node, k) \in ignore.paths

\* C4: DictExtractor.extract yields, for each key of either dict whose path is
\* not ignored, exactly one patch: change if the key is in both, delete if only
\* in first, insert if only in second; nothing for an ignored key or any other.
C4_DictTotality ==
    (extractor = "Dict" /\ pc = "done") =>
        /\ \A i \in 1..Len(patches) :
              OldPosition(patches[i]) \in KeyUnion(first, second)
        /\ \A k \in KeyUnion(first, second) :
              LET of_k == {i \in 1..Len(patches) : OldPosition(patches[i]) = k}
              IN  IF Ignored(k) THEN of_k = {}
                  ELSE /\ Cardinality(of_k) = 1
                       /\ \A i \in of_k :
                            patches[i] =
                              IF k \in DOMAIN first /\ k \in DOMAIN second
                              THEN <<"change", k, k, first[k], second[k]>>
                              ELSE IF k \in DOMAIN first
                              THEN <<"delete", k, k, first[k], None>>
                              ELSE <<"insert", k, k, None, second[k]>>
        /\ ignore.is_none => Len(patches) = Cardinality(KeyUnion(first, second))

\* a key of both dicts is ignored through its dotted path, the other key is
\* only in first
C4_Witness ==
    /\ extractor = "Dict" /\ pc = "done"
    /\ dotted_node.kind = "str"
    /\ node # <<>>
    /\ KeyStr1 \in DOMAIN first /\ KeyStr1 \in DOMAIN second /\ Ignored(KeyStr1)
    /\ KeyInt1 \in DOMAIN first /\ KeyInt1 \notin DOMAIN second
    /\ Len(patches) = 0

-----------------------------------------------------------------------------
(* extract(x, x) *)

\* the script difflib's SequenceMatcher gives for identical lists: nothing
\* for empty lists, otherwise one 'equal' opcode over both
IdenticalScript ==
    opcode \in {NoOpcode, <<"equal", 0, Len(first), 0, Len(second)>>}

SameArguments ==
    /\ pc = "done"
    /\ first = second
    /\ extractor = "Sequence" => IdenticalScript

\* C3 as stated: every extractor yields zero patches for extract(x, x).
C3_Idempotence ==
    SameArguments => (applied = 0 /\ patches = <<>>)

\* C3 amended: SetExtractor and SequenceExtractor yield zero patches for
\* extract(x, x); DictExtractor and ListExtractor yield no insert and no
\* delete, but one change patch with old_value = new_value for every key that
\* is not ignored and for every index.
C3_IdempotenceAmended ==
    SameArguments =>
        /\ extractor \in {"Set", "Sequence"} => (applied = 0 /\ patches = <<>>)
        /\ extractor = "Dict" =>
              /\ Len(patches) = Cardinality({k \in DOMAIN first : ~Ignored(k)})
              /\ \A i \in 1..Len(patches) :
                    /\ Action(patches[i]) = "change"
                    /\ OldValue(patches[i]) = NewValue(patches[i])
        /\ (extractor = "List" /\ applied = 0) =>
              /\ Len(patches) = Len(first)
              /\ \A i \in 1..Len(patches) :
                    /\ Action(patches[i]) = "change"
                    /\ OldValue(patches[i]) = NewValue(patches[i])

\* identical non-empty arguments have gone through each of the extractors
C3_Witness ==
    /\ SameArguments
    /\ \/ extractor = "Set" /\ first # {}
       \/ extractor = "Sequence" /\ Len(first) = MaxLen
       \/ extractor = "Dict" /\ DOMAIN first = Keys /\ Len(patches) = 1
       \/ extractor = "List" /\ Len(first) = MaxLen /\ applied = 0

-----------------------------------------------------------------------------
(* Extractor: the registry                                                  *)
(* A mapping key is the name of a Python type or 'default'.  A mapping      *)
(* value is an extractor class (cls) or a list of classes (chain).          *)

MaxInstances == 2

Class(c) == [cls |-> c, chain |-> <<>>]
Chain(l) == [cls |-> "", chain |-> l]

DefaultKeys == {"dict", "list", "set", "default"}

\* the dict literal of Extractor.__init__
DefaultExtractors ==
    [k \in DefaultKeys |->
        CASE k = "dict"    -> Class("DictExtractor")
          [] k = "list"    -> Class("ListExtractor")
          [] k = "set"     -> Class("SetExtractor")
          [] k = "default" -> Chain(<<"DictExtractor", "ListExtractor", "SetExtractor">>)]

GetDefaultExtractors ==
    [k \in {"dict", "list", "set", "default"} |->
        CASE k = "dict"    -> Class("DictExtractor")
          [] k = "list"    -> Class("ListExtractor")
          [] k = "set"     -> Class("SetExtractor")
          [] k = "default" -> Chain(<<"DictExtractor", "ListExtractor", "SetExtractor">>)]

\* an optional argument: None, or a value
NoneArg == [is_none |-> TRUE, map |-> <<>>]
DictArg(m) == [is_none |-> FALSE, map |-> m]

\* Python truth value of an extractor_update argument: None and {} are false
Truthy(arg) == ~arg.is_none /\ DOMAIN arg.map # {}

\* mutant: the override replaces the whole mapping
UpdateReplacing(m, u) == u
\* m.update(u)
Update(m, u) ==
    [k \in DOMAIN m \cup DOMAIN u |-> IF k \in DOMAIN u THEN u[k] ELSE m[k]]

\* PathLimit(): no path is limited
UnlimitedPathLimit == [is_none |-> FALSE, limits |-> {}]
NonePathLimit == [is_none |-> TRUE, limits |-> {}]
SomePathLimit == [is_none |-> FALSE, limits |-> {StrPath("a")}]

\* Extractor.__init__
NewExtractor(extractor_update, ign, try_default, expand, path_limit) ==
    [extractor_update |-> extractor_update,
     path_limit_arg   |-> path_limit,
     extractors  |-> IF Truthy(extractor_update)
                     THEN Update(DefaultExtractors, extractor_update.map)
                     ELSE DefaultExtractors,
     ignore      |-> ign,
     try_default |-> try_default,
     expand      |-> expand,
     path_limit  |-> IF ~path_limit.is_none THEN path_limit ELSE UnlimitedPathLimit]

\* what a call of the diff driver leaves of the Extractor it is given: the
\* driver only reads the configuration
DiffDriver(self) == self

Updates ==
    {NoneArg,
     DictArg(<<>>),
     DictArg([k \in {"list"} |-> Class("SequenceExtractor")]),
     DictArg([k \in {"tuple", "default"} |->
                IF k = "tuple" THEN Class("ListExtractor")
                ELSE Chain(<<"SequenceExtractor", "DictExtractor">>)])}

InitIdleCall ==
    /\ extractor = "none"
    /\ pc = "idle"
    /\ first = <<>>
    /\ second = <<>>
    /\ node = <<>>
    /\ dotted_node = ListPath(<<>>)
    /\ ignore = IgnoreNone
    /\ patches = <<>>
    /\ opcode = NoOpcode
    /\ latest_insertions = 0
    /\ latest_deletions = 0
    /\ cur = <<>>
    /\ applied = 0

InitRegistry ==
    /\ InitIdleCall
    /\ instances = NoInstances
    /\ last_call = NoCall
    /\ set_s = {}
    /\ set_t = {}
    /\ canon = IdleCanon

Construct ==
    /\ Len(instances) < MaxInstances
    /\ \E u \in Updates, ign \in {IgnoreNone, IgnorePaths({StrPath("a")})},
          flags \in {<<TRUE, FALSE>>, <<FALSE, TRUE>>},
          pl \in {NonePathLimit, SomePathLimit} :
          instances' = Append(instances, NewExtractor(u, ign, flags[1], flags[2], pl))
    /\ UNCHANGED <<callVars, patches, seqVars, replayVars, last_call, canonVars>>

\* Extractor.extract: the configuration is handed to the diff driver
RegistryExtract ==
    /\ \E i \in 1..Len(instances) :
          /\ instances' = [instances EXCEPT ![i] = DiffDriver(@)]
          /\ last_call' = [i |-> i, before |-> instances[i]]
    /\ UNCHANGED <<callVars, patches, seqVars, replayVars, canonVars>>

NextRegistry ==
    \/ Construct
    \/ RegistryExtract

SpecRegistry == InitRegistry /\ [][NextRegistry]_vars

\* C7: an Extractor built with override U maps every key of U to U's value and
\* every other default key to its default; one built without override has
\* exactly the default mapping whatever other instances were given; extract
\* leaves the configuration unchanged; path_limit is PathLimit() when none
\* was given.
C7_RegistryConfiguration ==
    /\ \A i \in 1..Len(instances) :
          LET self == instances[i]
              U == IF self.extractor_update.is_none THEN <<>> ELSE self.extractor_update.map
          IN  /\ DOMAIN self.extractors = DefaultKeys \cup DOMAIN U
              /\ \A k \in DOMAIN U : self.extractors[k] = U[k]
              /\ "dict" \notin DOMAIN U => self.extractors["dict"] = Class("DictExtractor")
              /\ "list" \notin DOMAIN U => self.extractors["list"] = Class("ListExtractor")
              /\ "set" \notin DOMAIN U => self.extractors["set"] = Class("SetExtractor")
              /\ "default" \notin DOMAIN U =>
                    self.extractors["default"] =
                        Chain(<<"DictExtractor", "ListExtractor", "SetExtractor">>)
              /\ DOMAIN U = {} => self.extractors = GetDefaultExtractors
              /\ self.path_limit_arg.is_none => self.path_limit = UnlimitedPathLimit
    /\ last_call.i # 0 => instances[last_call.i] = last_call.before

\* an instance with an override and a later one without, after a call of
\* extract on the first
C7_Witness ==
    /\ Len(instances) = 2
    /\ "tuple" \in DOMAIN instances[1].extractors
    /\ instances[1].extractors["default"] # instances[2].extractors["default"]
    /\ instances[2].extractor_update.is_none
    /\ instances[2].path_limit_arg.is_none
    /\ last_call.i = 1

-----------------------------------------------------------------------------
(* SequenceExtractor._make_hashable and SetTuple, on sets of scalars        *)

Scalars == {None, 0, 1}

\* CPython 2 orders None before every number
PyLess(a, b) == a < b

\* sorted(t)
RECURSIVE Sorted(_)
Sorted(S) ==
    IF S = {} THEN <<>>
    ELSE LET m == CHOOSE x \in S : \A y \in S \ {x} : PyLess(x, y)
         IN  <<m>> \o Sorted(S \ {m})

SetTuple(items) == [type |-> "SetTuple", items |-> items]

\* _make_hashable of a value that is no list, set or dict
MakeHashableScalar(t) == t

\* _make_hashable of a set; its elements are hashable, hence scalars
MakeHashableSet(t) ==
    LET sorted == Sorted(t)
    IN  SetTuple([k \in 1..Len(sorted) |-> MakeHashableScalar(sorted[k])])

\* izip_longest(x, y): the shorter tuple is padded with None
IzipLongest(x, y) ==
    [k \in 1..Max(Len(x), Len(y)) |->
        <<IF k <= Len(x) THEN x[k] ELSE None, IF k <= Len(y) THEN y[k] ELSE None>>]

\* SetTuple.__eq__
SetTupleEq(x, y) ==
    /\ x.type = y.type
    /\ \A k \in DOMAIN IzipLongest(x.items, y.items) :
          IzipLongest(x.items, y.items)[k][1] = IzipLongest(x.items, y.items)[k][2]

\* SetTuple.__hash__: hash(self + ('',)).  The built-in hash is taken to be
\* free of collisions: the hash of a tuple is represented by the tuple, here
\* the pair of self and the appended ('',).
SetTupleHash(x) == <<x.items, <<"">>>>

InitCanon ==
    /\ InitIdleCall
    /\ instances = NoInstances
    /\ last_call = NoCall
    /\ set_s \in SUBSET Scalars
    /\ set_t \in SUBSET Scalars
    /\ canon = IdleCanon

MakeHashable ==
    /\ canon.state = "idle"
    /\ canon' = [state |-> "hashable",
                 s |-> MakeHashableSet(set_s), t |-> MakeHashableSet(set_t)]
    /\ UNCHANGED <<callVars, patches, seqVars, replayVars, regVars, set_s, set_t>>

\* the matcher compares and hashes the two projections
Compare ==
    /\ canon.state = "hashable"
    /\ canon' = [state |-> "compared", s |-> canon.s, t |-> canon.t,
                 eq |-> SetTupleEq(canon.s, canon.t),
                 hash_s |-> SetTupleHash(canon.s), hash_t |-> SetTupleHash(canon.t)]
    /\ UNCHANGED <<callVars, patches, seqVars, replayVars, regVars, set_s, set_t>>

NextCanon ==
    \/ MakeHashable
    \/ Compare

SpecCanon == InitCanon /\ [][NextCanon]_vars

\* C8: two projections of sets compare equal iff their sorted canonicalized
\* element sequences have the same length and are pairwise equal, and equal
\* projections have equal hashes.
C8_StructuralEquality ==
    canon.state = "compared" =>
        /\ canon.eq <=>
              /\ Len(canon.s.items) = Len(canon.t.items)
              /\ \A k \in 1..Min(Len(canon.s.items), Len(canon.t.items)) :
                    canon.s.items[k] = canon.t.items[k]
        /\ canon.eq => canon.hash_s = canon.hash_t

====
